---------------------------- MODULE Spec2Model ----------------------------
(***************************************************************************)
(* The training loop of script/tri_loss/train.py (main): per epoch, per    *)
(* batch, a forward loop over the models, a mutual-learning loop that      *)
(* composes each model's loss and back-propagates it, a loop of optimizer  *)
(* steps, and the update of the running meters.                            *)
(*                                                                         *)
(* Tensors are abstracted to what the training step's control depends on:  *)
(* whether the value is a tensor or the int placeholder 0, the batch it    *)
(* was computed from, the models whose autograd graph it hangs on, whether *)
(* it is non-finite (NaN/Inf), and which loss terms it sums with a         *)
(* non-zero coefficient.  Models are numbered 1..num_models (the source    *)
(* counts from 0; list index k here is Python index k-1).                  *)
(***************************************************************************)
EXTENDS Naturals, FiniteSets, Sequences

\* Bounds of the model.
MaxModels == 2
MaxSteps == 2
MaxEpochs == 2

VARIABLES
  cfg,              \* cfg = Config()
  pc,               \* position in main
  ep,               \* epoch index of the for loop
  step,             \* step counter of the while loop
  epoch_done,       \* flag returned by train_set.next_batch()
  i,                \* index of the running for loop over the models
  lists,            \* the seven per-batch lists of lines 241-249
  grads,            \* per model: which backward passes wrote its .grad
  stepped,          \* per model: optimizer.step() calls since the batch was pulled
  loss,             \* the total loss last composed in this step (lines 328-333)
  meters,           \* number of update() calls on each AverageMeter
  computed,         \* <<model, term>> pairs computed for the current batch
  nonfinite,        \* per model: the forward head that is NaN/Inf this batch
  backwardDone,     \* models whose zero_grad + backward ran this batch
  lossNaN,          \* models whose total loss was NaN/Inf this batch
  pulled,           \* next_batch() calls in the current epoch
  trained,          \* completed training steps in the current epoch
  lateBatch         \* a batch was pulled although epoch_done was set

vars == <<cfg, pc, ep, step, epoch_done, i, lists, grads, stepped, loss,
          meters, computed, nonfinite, backwardDone, lossNaN, pulled,
          trained, lateBatch>>

----------------------------------------------------------------------------
\* Configuration

Weights == {0, 1}

Terms == {"g", "l", "id", "pm", "gdm", "ldm"}

Configs ==
  [num_models : 1..MaxModels,
   g_loss_weight : Weights,
   l_loss_weight : Weights,
   id_loss_weight : Weights,
   pm_loss_weight : Weights,
   gdm_loss_weight : Weights,
   ldm_loss_weight : Weights,
   local_dist_own_hard_sample : BOOLEAN,
   total_epochs : {MaxEpochs}]

ModelIds == 1..cfg.num_models

Weight(t) ==
  CASE t = "g" -> cfg.g_loss_weight
    [] t = "l" -> cfg.l_loss_weight
    [] t = "id" -> cfg.id_loss_weight
    [] t = "pm" -> cfg.pm_loss_weight
    [] t = "gdm" -> cfg.gdm_loss_weight
    [] t = "ldm" -> cfg.ldm_loss_weight

----------------------------------------------------------------------------
\* Values

\* The Python int 0 used as a placeholder for a term that is not computed.
Int0 == [kind |-> "int", batch |-> 0, graph |-> {}, nan |-> FALSE, terms |-> {}]

\* A tensor computed by the forward pass of model m on batch b.
Tensor(b, m, nan, ts) ==
  [kind |-> "tensor", batch |-> b, graph |-> {m}, nan |-> nan, terms |-> ts]

\* The heads of model(ims_var) that may come out non-finite.
NonFinite == {"none", "global_feat", "logits"}

\* tensor.detach(): the same value, cut from its autograd graph.
Detach(v) == [v EXCEPT !.graph = {}]

PeerValueAttached(v) == v

\* TVT(x_list[j]).detach(): how a peer's recorded value enters a mutual term.
PeerValue(v) == Detach(v)

\* for j in range(cfg.num_models): if j != i
Peers(m) == {j \in ModelIds : j # m}

\* v * w for a loss value v and a config weight w.
Mul(v, w) ==
  IF v.kind = "int" THEN Int0
  ELSE [v EXCEPT !.terms = IF w = 0 THEN {} ELSE v.terms]

\* a + b
Add(a, b) ==
  IF a.kind = "int" /\ b.kind = "int" THEN Int0
  ELSE [kind |-> "tensor",
        batch |-> IF a.kind = "tensor" THEN a.batch ELSE b.batch,
        graph |-> a.graph \cup b.graph,
        nan |-> a.nan \/ b.nan,
        terms |-> a.terms \cup b.terms]

\* The sum over the peers of own (op) peer, then divided by the peer count.
MutualTerm(t, own, list, m) ==
  [kind |-> "tensor",
   batch |-> own.batch,
   graph |-> own.graph \cup UNION {PeerValue(list[j]).graph : j \in Peers(m)},
   nan |-> own.nan \/ (\E j \in Peers(m) : PeerValue(list[j]).nan),
   terms |-> {t}]

----------------------------------------------------------------------------
\* Guards of the training step

\* if cfg.l_loss_weight == 0: l_loss, l_dist_mat = 0, 0
LocalLossSkipped == cfg.l_loss_weight = 0

\* if cfg.id_loss_weight > 0
IdGuard == cfg.id_loss_weight > 0

PmGuard == (cfg.num_models > 1) /\ (cfg.pm_loss_weight > 0)

GdmGuard == (cfg.num_models > 1) /\ (cfg.gdm_loss_weight > 0)

LdmGuard ==
  (cfg.num_models > 1) /\ cfg.local_dist_own_hard_sample
    /\ (cfg.ldm_loss_weight > 0)

WhileConditionIgnoresFlag == TRUE

\* while not epoch_done
WhileCondition == ~epoch_done

ForwardLoopEndsEarly == i >= 1

\* the for loop of line 251 is exhausted after the last model
ForwardLoopDone == i = cfg.num_models

SteppedInBackward(m) == [stepped EXCEPT ![m] = @ + 1]

\* optimizer.zero_grad(); loss.backward() take no optimizer step
SteppedAfterBackward(m) == stepped

\* The batch pulled in step `step` of epoch `ep`.
BatchId == ep * MaxSteps + step

NoLoss == [model |-> 0, value |-> Int0, peers |-> {}, multiplied |-> {}]

EmptyLists ==
  [g_loss |-> <<>>, l_loss |-> <<>>, id_loss |-> <<>>, probs |-> <<>>,
   log_probs |-> <<>>, g_dist_mat |-> <<>>, l_dist_mat |-> <<>>]

NoMeters ==
  [g |-> 0, l |-> 0, id |-> 0, pm |-> 0, gdm |-> 0, ldm |-> 0, loss |-> 0]

\* the fifteen AverageMeter() of lines 202-223
FreshMeters == NoMeters

----------------------------------------------------------------------------
Init ==
  /\ cfg \in Configs
  /\ pc = "epoch"
  /\ ep = 0
  /\ step = 0
  /\ epoch_done = FALSE
  /\ i = 0
  /\ lists = EmptyLists
  /\ grads = [m \in ModelIds |-> {}]
  /\ stepped = [m \in ModelIds |-> 0]
  /\ loss = NoLoss
  /\ meters = NoMeters
  /\ computed = {}
  /\ nonfinite = [m \in ModelIds |-> "none"]
  /\ backwardDone = {}
  /\ lossNaN = {}
  /\ pulled = 0
  /\ trained = 0
  /\ lateBatch = FALSE

\* for ep in range(start_ep, cfg.total_epochs): ... step = 0
EpochStart ==
  /\ pc = "epoch"
  /\ ep < cfg.total_epochs
  /\ epoch_done' = FALSE
  /\ meters' = FreshMeters
  /\ step' = 0
  /\ pulled' = 0
  /\ trained' = 0
  /\ pc' = "loop"
  /\ UNCHANGED <<cfg, ep, i, lists, grads, stepped, loss, computed,
                 nonfinite, backwardDone, lossNaN, lateBatch>>

\* while not epoch_done: step += 1; ... = train_set.next_batch(); new lists
NextBatch ==
  /\ pc = "loop"
  /\ WhileCondition
  /\ step < MaxSteps
  /\ step' = step + 1
  /\ \E done \in BOOLEAN :
       /\ (step + 1 = MaxSteps) => done
       /\ epoch_done' = done
  /\ pulled' = pulled + 1
  /\ lateBatch' = (lateBatch \/ epoch_done)
  /\ lists' = EmptyLists
  /\ computed' = {}
  /\ nonfinite' = [m \in ModelIds |-> "none"]
  /\ backwardDone' = {}
  /\ stepped' = [m \in ModelIds |-> 0]
  /\ loss' = NoLoss
  /\ lossNaN' = {}
  /\ i' = 0
  /\ pc' = "forward"
  /\ UNCHANGED <<cfg, ep, grads, meters, trained>>

\* One iteration of the loop of lines 251-284, for model i + 1.
Forward ==
  /\ pc = "forward"
  /\ ~ForwardLoopDone
  /\ \E bad \in NonFinite :
       LET m == i + 1
           gnan == bad = "global_feat"
           pnan == bad = "logits"
           g_loss == Tensor(BatchId, m, gnan, {"g"})
           g_dist_mat == Tensor(BatchId, m, gnan, {})
           l_loss == IF LocalLossSkipped THEN Int0
                     ELSE Tensor(BatchId, m, FALSE, {"l"})
           l_dist_mat == IF LocalLossSkipped THEN Int0
                         ELSE IF cfg.local_dist_own_hard_sample
                              THEN Tensor(BatchId, m, FALSE, {})
                              ELSE Int0
           id_loss == IF IdGuard THEN Tensor(BatchId, m, pnan, {"id"}) ELSE Int0
       IN /\ lists' =
               [g_loss |-> Append(lists.g_loss, g_loss),
                l_loss |-> Append(lists.l_loss, l_loss),
                id_loss |-> Append(lists.id_loss, id_loss),
                probs |-> Append(lists.probs, Tensor(BatchId, m, pnan, {})),
                log_probs |-> Append(lists.log_probs, Tensor(BatchId, m, pnan, {})),
                g_dist_mat |-> Append(lists.g_dist_mat, g_dist_mat),
                l_dist_mat |-> Append(lists.l_dist_mat, l_dist_mat)]
          /\ computed' = computed \cup {<<m, "g">>}
               \cup (IF LocalLossSkipped THEN {} ELSE {<<m, "l">>})
               \cup (IF IdGuard THEN {<<m, "id">>} ELSE {})
          /\ nonfinite' = [nonfinite EXCEPT ![m] = bad]
  /\ i' = i + 1
  /\ UNCHANGED <<cfg, pc, ep, step, epoch_done, grads, stepped, loss, meters,
                 backwardDone, lossNaN, pulled, trained, lateBatch>>

\* The forward loop is exhausted: control reaches line 291.
ForwardEnd ==
  /\ pc = "forward"
  /\ ForwardLoopDone
  /\ i' = 0
  /\ pc' = "mutual"
  /\ UNCHANGED <<cfg, ep, step, epoch_done, lists, grads, stepped, loss,
                 meters, computed, nonfinite, backwardDone, lossNaN, pulled,
                 trained, lateBatch>>

\* model(ims_var), global_loss or local_loss raises (malformed batch).
ForwardRaise ==
  /\ pc = "forward"
  /\ ~ForwardLoopDone
  /\ pc' = "aborted"
  /\ UNCHANGED <<cfg, ep, step, epoch_done, i, lists, grads, stepped, loss,
                 meters, computed, nonfinite, backwardDone, lossNaN, pulled,
                 trained, lateBatch>>

\* The values the mutual-learning loop computes for model m (lines 300-333).
PmLoss(m) ==
  IF PmGuard THEN MutualTerm("pm", lists.log_probs[m], lists.probs, m)
  ELSE Int0

GdmLoss(m) ==
  IF GdmGuard THEN MutualTerm("gdm", lists.g_dist_mat[m], lists.g_dist_mat, m)
  ELSE Int0

LdmLoss(m) ==
  IF LdmGuard THEN MutualTerm("ldm", lists.l_dist_mat[m], lists.l_dist_mat, m)
  ELSE Int0

\* loss = g_loss * cfg.g_loss_weight + ... + ldm_loss * cfg.ldm_loss_weight
TotalLoss(m) ==
  Add(Add(Add(Add(Add(Mul(lists.g_loss[m], cfg.g_loss_weight),
                      Mul(lists.l_loss[m], cfg.l_loss_weight)),
                  Mul(lists.id_loss[m], cfg.id_loss_weight)),
              Mul(PmLoss(m), cfg.pm_loss_weight)),
          Mul(GdmLoss(m), cfg.gdm_loss_weight)),
      Mul(LdmLoss(m), cfg.ldm_loss_weight))

\* The terms that enter the sum of lines 328-333 as a product with their weight.
Multiplied == Terms

\* The mutual terms whose guard lets them be computed.
MutualComputed(m) ==
  (IF PmGuard THEN {<<m, "pm">>} ELSE {})
    \cup (IF GdmGuard THEN {<<m, "gdm">>} ELSE {})
    \cup (IF LdmGuard THEN {<<m, "ldm">>} ELSE {})

\* The peers whose recorded values model m reads.
PeersRead(m) == IF PmGuard \/ GdmGuard \/ LdmGuard THEN Peers(m) ELSE {}

\* l_dist_mat - TVT(l_dist_mat_list[j]).detach() on the int placeholder 0:
\* an int has no .cpu()/.cuda()/.detach(), the expression raises.
LdmOnPlaceholder(m) ==
  LdmGuard /\ \E j \in Peers(m) \cup {m} : lists.l_dist_mat[j].kind = "int"

\* optimizer.zero_grad() of model m, then loss.backward(): the gradient lands
\* on the parameters of every model the loss's graph reaches.
GradsAfterBackward(m, v) ==
  [k \in ModelIds |->
     IF k = m THEN (IF m \in v.graph THEN {m} ELSE {})
     ELSE IF k \in v.graph THEN grads[k] \cup {m} ELSE grads[k]]

\* One iteration of the loop of lines 291-336, for model i + 1.
Mutual ==
  /\ pc = "mutual"
  /\ i < cfg.num_models
  /\ LET m == i + 1
         v == TotalLoss(m)
     IN /\ ~LdmOnPlaceholder(m)
        /\ computed' = computed \cup MutualComputed(m)
        /\ loss' = [model |-> m, value |-> v, peers |-> PeersRead(m),
                  multiplied |-> Multiplied]
        /\ grads' = GradsAfterBackward(m, v)
        /\ stepped' = SteppedAfterBackward(m)
        /\ backwardDone' = backwardDone \cup {m}
        /\ lossNaN' = lossNaN \cup (IF v.nan THEN {m} ELSE {})
  /\ i' = IF i + 1 = cfg.num_models THEN 0 ELSE i + 1
  /\ pc' = IF i + 1 = cfg.num_models THEN "optim" ELSE "mutual"
  /\ UNCHANGED <<cfg, ep, step, epoch_done, lists, meters, nonfinite, pulled,
                 trained, lateBatch>>

\* The local-distance mutual loss is attempted on the placeholder and raises
\* (lines 319-325), after pm_loss and gdm_loss of this model were computed.
MutualLdmRaise ==
  /\ pc = "mutual"
  /\ i < cfg.num_models
  /\ LdmOnPlaceholder(i + 1)
  /\ computed' = computed \cup MutualComputed(i + 1)
  /\ pc' = "aborted"
  /\ UNCHANGED <<cfg, ep, step, epoch_done, i, lists, grads, stepped, loss,
                 meters, nonfinite, backwardDone, lossNaN, pulled, trained,
                 lateBatch>>

\* loss.backward() raises, after optimizer.zero_grad() (lines 335-336).
BackwardRaise ==
  /\ pc = "mutual"
  /\ i < cfg.num_models
  /\ LET m == i + 1
         v == TotalLoss(m)
     IN /\ ~LdmOnPlaceholder(m)
        /\ computed' = computed \cup MutualComputed(m)
        /\ loss' = [model |-> m, value |-> v, peers |-> PeersRead(m),
                  multiplied |-> Multiplied]
        /\ grads' = [grads EXCEPT ![m] = {}]
        /\ lossNaN' = lossNaN \cup (IF v.nan THEN {m} ELSE {})
  /\ pc' = "aborted"
  /\ UNCHANGED <<cfg, ep, step, epoch_done, i, lists, stepped, meters,
                 nonfinite, backwardDone, pulled, trained, lateBatch>>

\* One iteration of: for optimizer in optimizers: optimizer.step()
OptimizerStep ==
  /\ pc = "optim"
  /\ i < cfg.num_models
  /\ stepped' = [stepped EXCEPT ![i + 1] = @ + 1]
  /\ i' = i + 1
  /\ UNCHANGED <<cfg, pc, ep, step, epoch_done, lists, grads, loss, meters,
                 computed, nonfinite, backwardDone, lossNaN, pulled, trained,
                 lateBatch>>

\* Lines 345-386: the meters' update() calls that end the training step.
UpdateMeters ==
  /\ pc = "optim"
  /\ i = cfg.num_models
  /\ meters' =
       [g |-> meters.g + 1,
        l |-> meters.l + (IF cfg.l_loss_weight > 0 THEN 1 ELSE 0),
        id |-> meters.id + (IF IdGuard THEN 1 ELSE 0),
        pm |-> meters.pm + (IF PmGuard THEN 1 ELSE 0),
        gdm |-> meters.gdm + (IF GdmGuard THEN 1 ELSE 0),
        ldm |-> meters.ldm + (IF LdmGuard THEN 1 ELSE 0),
        loss |-> meters.loss + 1]
  /\ trained' = trained + 1
  /\ i' = 0
  /\ pc' = "loop"
  /\ UNCHANGED <<cfg, ep, step, epoch_done, lists, grads, stepped, loss,
                 computed, nonfinite, backwardDone, lossNaN, pulled,
                 lateBatch>>

\* The while loop ends: epoch log, checkpoint, next epoch or the final test.
EpochLog ==
  /\ pc = "loop"
  /\ ~WhileCondition
  /\ ep' = ep + 1
  /\ pc' = IF ep + 1 < cfg.total_epochs THEN "epoch" ELSE "done"
  /\ UNCHANGED <<cfg, step, epoch_done, i, lists, grads, stepped, loss,
                 meters, computed, nonfinite, backwardDone, lossNaN, pulled,
                 trained, lateBatch>>

Next ==
  \/ EpochStart
  \/ NextBatch
  \/ Forward
  \/ ForwardEnd
  \/ ForwardRaise
  \/ Mutual
  \/ MutualLdmRaise
  \/ BackwardRaise
  \/ OptimizerStep
  \/ UpdateMeters
  \/ EpochLog

Spec == Init /\ [][Next]_vars

----------------------------------------------------------------------------
\* Properties

Steps(n) == \A m \in ModelIds : stepped[m] = n

\* A training step has run to its end and no new batch was pulled yet.
StepCompleted == pc \in {"loop", "epoch", "done"} /\ step > 0

\* C1: within a batch no optimizer.step() happens before every model's
\* zero_grad + backward has completed, no optimizer steps twice, and when the
\* training step has completed every optimizer has stepped exactly once.
StepsFollowAllBackwards ==
  /\ \A m \in ModelIds : stepped[m] <= 1
  /\ (\E m \in ModelIds : stepped[m] > 0) => backwardDone = ModelIds
  /\ StepCompleted => Steps(1)

StepsFollowAllBackwardsWitness ==
  /\ pc = "optim"
  /\ cfg.num_models >= 2
  /\ i = cfg.num_models
  /\ Steps(1)
  /\ backwardDone = ModelIds

\* A list holds one entry per model, each computed from the current batch by
\* the model at its index (or the placeholder, where placeholders are allowed).
Recorded(l, placeholders) ==
  /\ Len(l) = cfg.num_models
  /\ \A j \in ModelIds :
       \/ placeholders /\ l[j] = Int0
       \/ l[j].kind = "tensor" /\ l[j].batch = BatchId /\ l[j].graph = {j}

\* C2: while the mutual-learning loop runs (and until the optimizers have
\* stepped), every model's probabilities, log-probabilities and distance
\* matrices of the current batch are recorded, and no step of the loop
\* changes the recorded lists.
PeerOutputsRecorded ==
  pc \in {"mutual", "optim"} =>
    /\ Recorded(lists.probs, FALSE)
    /\ Recorded(lists.log_probs, FALSE)
    /\ Recorded(lists.g_dist_mat, FALSE)
    /\ Recorded(lists.l_dist_mat, TRUE)

PeerOutputsStable ==
  []PeerOutputsRecorded /\ [][pc = "mutual" => lists' = lists]_vars

PeerOutputsStableWitness ==
  /\ pc = "optim"
  /\ cfg.num_models >= 2
  /\ PmGuard /\ GdmGuard /\ LdmGuard
  /\ loss.model = cfg.num_models
  /\ loss.peers = Peers(loss.model)

\* The peers of the loss last composed are the other models, the loss hangs
\* on its own model's graph alone, and every gradient was written by the
\* backward pass of the model it belongs to.
OwnGraphOnly ==
  /\ \A m \in ModelIds : grads[m] \subseteq {m}
  /\ loss.model # 0 =>
       /\ loss.value.graph = {loss.model}
       /\ loss.model \notin loss.peers
       /\ (PmGuard \/ GdmGuard \/ LdmGuard) =>
            loss.peers = ModelIds \ {loss.model}

\* An iteration of the mutual-learning loop, for model i + 1, leaves every
\* other model's gradients and parameters as they were.
BackwardFrame ==
  pc = "mutual" =>
    \A j \in ModelIds \ {i + 1} : grads'[j] = grads[j] /\ stepped'[j] = stepped[j]

\* C3: the peers of model i's mutual terms are exactly the models j # i and
\* enter detached, so that the backward pass of model i's total loss writes
\* gradients only to model i's parameters: every other model's gradients and
\* parameters are unchanged by it.
GradientIsolation == []OwnGraphOnly /\ [][BackwardFrame]_vars

GradientIsolationWitness ==
  /\ pc = "optim"
  /\ cfg.num_models >= 2
  /\ PmGuard
  /\ loss.peers # {}
  /\ \A m \in ModelIds : grads[m] = {m}

\* The enabling condition of a loss term: a non-zero weight, at least two
\* models for a mutual term, the independent-hard-samples policy for the
\* local-distance mutual term.
TermEnabled(t) ==
  /\ Weight(t) > 0
  /\ t \in {"pm", "gdm", "ldm"} => cfg.num_models > 1
  /\ t = "ldm" => cfg.local_dist_own_hard_sample

\* C4: a loss term whose weight is 0 or whose enabling condition is false is
\* not computed in any training step, and it does not enter the total loss
\* as a product with its weight.
DisabledTermsNotComputed ==
  /\ \A c \in computed : TermEnabled(c[2])
  /\ \A t \in loss.multiplied : TermEnabled(t)

\* The value model m's term t has in the current step.
TermValue(m, t) ==
  CASE t = "g" -> lists.g_loss[m]
    [] t = "l" -> lists.l_loss[m]
    [] t = "id" -> lists.id_loss[m]
    [] t = "pm" -> PmLoss(m)
    [] t = "gdm" -> GdmLoss(m)
    [] t = "ldm" -> LdmLoss(m)

EnabledTerms == {t \in Terms : TermEnabled(t)}

\* C5: with local-loss weight 0 the local loss is computed for no model, and
\* each model's total loss is the weighted sum of the enabled terms only: it
\* sums exactly those terms and is non-finite only if one of them is.
LocalLossOffTotal ==
  cfg.l_loss_weight = 0 =>
    /\ \A m \in ModelIds : <<m, "l">> \notin computed
    /\ loss.model # 0 =>
         /\ loss.value.terms = EnabledTerms
         /\ loss.value.nan =
              (\E t \in EnabledTerms : TermValue(loss.model, t).nan)

\* A mutual-loss weight > 0 with one model, or the local-distance mutual loss
\* weighted > 0 without the independent-hard-samples policy.
ConfigError ==
  \/ /\ cfg.num_models = 1
     /\ cfg.pm_loss_weight > 0 \/ cfg.gdm_loss_weight > 0
          \/ cfg.ldm_loss_weight > 0
  \/ cfg.ldm_loss_weight > 0 /\ ~cfg.local_dist_own_hard_sample

\* C6: under a configuration error no batch is pulled and no training step
\* is executed.
ConfigErrorRejected ==
  ConfigError => pulled = 0 /\ trained = 0

\* C7: no partial update within a batch: a run that aborted in the batch, or
\* that is still in the forward or mutual-learning loop (where a failure can
\* occur), has stepped no optimizer; a completed step has stepped them all.
NoPartialUpdate ==
  /\ pc \in {"aborted", "forward", "mutual"} => Steps(0)
  /\ StepCompleted => Steps(1)

NoPartialUpdateWitness ==
  /\ pc = "aborted"
  /\ cfg.num_models >= 2
  /\ backwardDone # {}
  /\ Steps(0)

\* C8: whenever the local-distance mutual loss is computed for a model, the
\* independent-hard-samples policy is in effect and every model's recorded
\* local distance matrix is a full matrix of the current batch.
LdmOnFullMatrices ==
  (\E m \in ModelIds : <<m, "ldm">> \in computed) =>
    /\ cfg.local_dist_own_hard_sample
    /\ \A j \in ModelIds :
         /\ lists.l_dist_mat[j].kind = "tensor"
         /\ lists.l_dist_mat[j].batch = BatchId

\* C9: a NaN/Inf total loss is fatal: no optimizer.step() is taken in that
\* training step and the step is not completed, so that no later step runs.
NonFiniteLossIsFatal ==
  lossNaN # {} => Steps(0) /\ ~StepCompleted

\* C10: in every epoch one training step runs per batch pulled, the batch
\* delivered with epoch_done included; no batch is pulled once epoch_done is
\* set; the total-loss meter is updated once per batch pulled, from empty,
\* and an epoch ends after at least one batch.
OneStepPerBatch ==
  /\ ~lateBatch
  /\ pulled = step
  /\ pc = "loop" => trained = pulled /\ meters.loss = pulled
  /\ pc \in {"forward", "mutual", "optim"} =>
       trained + 1 = pulled /\ meters.loss = trained
  /\ (pc \in {"epoch", "done"} /\ ep > 0) =>
       epoch_done /\ pulled >= 1 /\ trained = pulled /\ meters.loss = pulled

OneStepPerBatchWitness ==
  /\ pc = "epoch"
  /\ ep = 1
  /\ epoch_done
  /\ pulled = 2
  /\ meters.loss = 2

====
